---- MODULE Spec2Model ----
(***************************************************************************)
(* Model of prysm/interferogram.py: the Interferogram entity (phase grid,  *)
(* coordinate axes, scale) with its operations crop, remove_tiptilt,       *)
(* remove_piston, remove_piston_tiptilt, bandreject, plot2d and the        *)
(* dropout_percentage property, plus the module functions fit_plane and    *)
(* bandreject_filter.  Samples are exact rationals <<n, d>> (d > 0); a     *)
(* non-finite sample (NaN) is <<0, 0>>.  Indices of grids are 1-based in   *)
(* the model; the integers the code computes (argmax results, slice        *)
(* bounds) keep their 0-based Python values.                               *)
(***************************************************************************)
EXTENDS Integers, Sequences, FiniteSets, TLC

VARIABLES pc, self, last, steps

vars == <<pc, self, last, steps>>

\* ------------------------------------------------------------------ bounds
\* largest number of rows / columns of a constructed phase grid
MaxDim == 2
\* number of operations applied to an entity after construction
MaxSteps == 2

\* ------------------------------------------------------- exact arithmetic
Abs(n) == IF n < 0 THEN -n ELSE n

RECURSIVE GCD(_, _)
GCD(a, b) == IF b = 0 THEN a ELSE GCD(b, a % b)

NaN == <<0, 0>>

Norm(n, d) ==
    LET g == GCD(Abs(n), Abs(d))
        s == IF d < 0 THEN -1 ELSE 1
    IN  IF d = 0 THEN NaN ELSE <<s * (n \div g), s * (d \div g)>>

Rat(n) == <<n, 1>>

isfinite(v) == v[2] # 0

RAdd(a, b) == IF isfinite(a) /\ isfinite(b)
              THEN Norm(a[1] * b[2] + b[1] * a[2], a[2] * b[2]) ELSE NaN

RSub(a, b) == IF isfinite(a) /\ isfinite(b)
              THEN Norm(a[1] * b[2] - b[1] * a[2], a[2] * b[2]) ELSE NaN

RMul(a, b) == IF isfinite(a) /\ isfinite(b)
              THEN Norm(a[1] * b[1], a[2] * b[2]) ELSE NaN

\* true division of finite a by finite b; b = 0 is the caller's error case
RDiv(a, b) == IF isfinite(a) /\ isfinite(b)
              THEN Norm(a[1] * b[2], a[2] * b[1]) ELSE NaN

RLess(a, b) == a[1] * b[2] < b[1] * a[2]

\* s[k] + ... + s[Len(s)]
RECURSIVE RSum(_, _)
RSum(s, k) == IF k > Len(s) THEN Rat(0) ELSE RAdd(s[k], RSum(s, k + 1))

\* ------------------------------------------------------------------ grids
\* a 2D array: shape <<rows, cols>> and the samples v[i][j]
\* (a record [shape |-> <<nr, nc>>, v |-> [i \in 1..nr |-> [j \in 1..nc |-> ...]]])
size(a) == a.shape[1] * a.shape[2]

\* the array with rows 1..sy and columns 1..sx of f, as stored values
ndarray(f, sy, sx) == SubSeq([p \in 1..sy |-> SubSeq(f[p], 1, sx)], 1, sy)

\* m.arange(n) * res
arange(n, res) == SubSeq([k \in 1..n |-> RMul(Rat(k - 1), res)], 1, n)

\* m.count_nonzero(~m.isfinite(a))
count_nonfinite(a) ==
    Cardinality({ij \in (1..a.shape[1]) \X (1..a.shape[2]) :
                    ~isfinite(a.v[ij[1]][ij[2]])})


\* m.any(m.isfinite(a), axis=1): one flag per row
anyrows(a) == [i \in 1..a.shape[1] |-> \E j \in 1..a.shape[2] : isfinite(a.v[i][j])]

\* m.any(m.isfinite(a), axis=0): one flag per column
anycols(a) == [j \in 1..a.shape[2] |-> \E i \in 1..a.shape[1] : isfinite(a.v[i][j])]

\* ndarray.argmax() of a non-empty boolean vector: 0-based index of the first
\* True, 0 when there is none
argmax(b) ==
    IF \E k \in 1..Len(b) : b[k]
    THEN (CHOOSE k \in 1..Len(b) : b[k] /\ \A l \in 1..(k - 1) : ~b[l]) - 1
    ELSE 0

\* b[::-1]
reversed(b) == [k \in 1..Len(b) |-> b[Len(b) + 1 - k]]

\* the 0-based half-open index range [lo, hi) that the Python slice
\* start:stop selects from an axis of length n (negative stop counts from
\* the end, and -0 is 0)
slice(n, start, stop) ==
    LET lo == IF start < 0 THEN (IF n + start < 0 THEN 0 ELSE n + start)
              ELSE (IF start > n THEN n ELSE start)
        hi == IF stop < 0 THEN (IF n + stop < 0 THEN 0 ELSE n + stop)
              ELSE (IF stop > n THEN n ELSE stop)
    IN  <<lo, IF hi < lo THEN lo ELSE hi>>

\* a[r0:r1, c0:c1] for the two index ranges
subgrid(a, rs, cs) ==
    [shape |-> <<rs[2] - rs[1], cs[2] - cs[1]>>,
     v |-> ndarray([i \in 1..(rs[2] - rs[1]) |->
                      [j \in 1..(cs[2] - cs[1]) |-> a.v[rs[1] + i][cs[1] + j]]],
                   rs[2] - rs[1], cs[2] - cs[1])]

\* -------------------------------------------------------------- fit_plane
\* m.meshgrid(x, y): xx[i][j] = x[j], yy[i][j] = y[i], shape <<len(y), len(x)>>
meshgrid_shape(x, y) == <<Len(y), Len(x)>>

\* the positions of an array of shape sh in row-major order
positions(sh) ==
    SubSeq([k \in 1..(sh[1] * sh[2]) |-> <<((k - 1) \div sh[2]) + 1, ((k - 1) % sh[2]) + 1>>],
           1, sh[1] * sh[2])

\* the positions selected by the boolean mask pts = m.isfinite(z), in the
\* order boolean indexing returns them
finite_positions(z) ==
    SelectSeq(positions(z.shape), LAMBDA e : isfinite(z.v[e[1]][e[2]]))

\* sum of a[k] * b[k]
RECURSIVE Dot(_, _, _)
Dot(a, b, k) ==
    IF k > Len(a) THEN Rat(0) ELSE RAdd(RMul(a[k], b[k]), Dot(a, b, k + 1))

Det3(M) ==
    RAdd(RSub(RMul(M[1][1], RSub(RMul(M[2][2], M[3][3]), RMul(M[2][3], M[3][2]))),
              RMul(M[1][2], RSub(RMul(M[2][1], M[3][3]), RMul(M[2][3], M[3][1])))),
         RMul(M[1][3], RSub(RMul(M[2][1], M[3][2]), RMul(M[2][2], M[3][1]))))

\* M with column k replaced by h
ReplaceCol(M, k, h) == [i \in 1..3 |-> [j \in 1..3 |-> IF j = k THEN h[i] ELSE M[i][j]]]

\* cofactor of the symmetric 3x3 matrix G at (i, j)
Cofactor(G, i, j) ==
    LET r == IF i = 1 THEN <<2, 3>> ELSE IF i = 2 THEN <<1, 3>> ELSE <<1, 2>>
        c == IF j = 1 THEN <<2, 3>> ELSE IF j = 2 THEN <<1, 3>> ELSE <<1, 2>>
        minor == RSub(RMul(G[r[1]][c[1]], G[r[2]][c[2]]),
                      RMul(G[r[1]][c[2]], G[r[2]][c[1]]))
    IN  IF (i + j) % 2 = 0 THEN minor ELSE RSub(Rat(0), minor)

Zero3 == <<Rat(0), Rat(0), Rat(0)>>

\* rank of the design matrix A (columns x, y, 1), read off its Gram matrix
\* G = A^T A
GramRank(G) ==
    IF Det3(G) # Rat(0) THEN 3
    ELSE IF \E i \in 1..3, j \in 1..3 : Cofactor(G, i, j) # Rat(0) THEN 2
    ELSE IF \E i \in 1..3 : G[i][i] # Rat(0) THEN 1
    ELSE 0

\* m.lstsq(A, b, rcond=None)[0] for A = stack([xs, ys, ones]).T and b = zs:
\* the least-squares solution of minimum norm, which the LAPACK driver
\* returns without raising whatever the rank of A (and zeros for no rows).
\* G = A^T A, h = A^T b; the minimum-norm solution of G c = h is the one
\* orthogonal to the null space of G.
\* Cramer's rule for the regular system M c = h
Cramer(M, h, det) ==
    <<RDiv(Det3(ReplaceCol(M, 1, h)), det), RDiv(Det3(ReplaceCol(M, 2, h)), det),
      RDiv(Det3(ReplaceCol(M, 3, h)), det)>>

Solve(M, h) == Cramer(M, h, Det3(M))

\* rank 2: the null space of G is spanned by v, any non-zero row of the
\* cofactor matrix, and G + v v^T is regular
Bordered(G, v) == <<<<RAdd(G[1][1], RMul(v[1], v[1])), RAdd(G[1][2], RMul(v[1], v[2])),
                      RAdd(G[1][3], RMul(v[1], v[3]))>>,
                    <<RAdd(G[2][1], RMul(v[2], v[1])), RAdd(G[2][2], RMul(v[2], v[2])),
                      RAdd(G[2][3], RMul(v[2], v[3]))>>,
                    <<RAdd(G[3][1], RMul(v[3], v[1])), RAdd(G[3][2], RMul(v[3], v[2])),
                      RAdd(G[3][3], RMul(v[3], v[3]))>>>>

CofactorRow(G, i) == <<Cofactor(G, i, 1), Cofactor(G, i, 2), Cofactor(G, i, 3)>>

\* rank 1: every row of A is the same r, and c = r * sum(z) / (m r.r)
RankOne(r, sumz, rr) == <<RDiv(RMul(r[1], sumz), rr), RDiv(RMul(r[2], sumz), rr),
                          RDiv(RMul(r[3], sumz), rr)>>

\* the minimum-norm solution of G c = h for G of the given rank (1..3)
MinNorm(G, h, r, rank) ==
    IF rank = 3 THEN Solve(G, h)
    ELSE IF rank = 2
    THEN Solve(Bordered(G, CofactorRow(G, CHOOSE i \in 1..3 :
                                            CofactorRow(G, i) # Zero3)), h)
    ELSE RankOne(r, h[3], RMul(G[3][3], Dot(r, r, 1)))

NormalSolve(G, h, r) == MinNorm(G, h, r, GramRank(G))

lstsq(xs, ys, flat, zs) ==
    IF Len(zs) = 0 THEN Zero3
    ELSE NormalSolve(<<<<Dot(xs, xs, 1), Dot(xs, ys, 1), Dot(xs, flat, 1)>>,
                       <<Dot(xs, ys, 1), Dot(ys, ys, 1), Dot(ys, flat, 1)>>,
                       <<Dot(xs, flat, 1), Dot(ys, flat, 1), Dot(flat, flat, 1)>>>>,
                     <<Dot(xs, zs, 1), Dot(ys, zs, 1), Dot(flat, zs, 1)>>,
                     <<xs[1], ys[1], flat[1]>>)

\* coefs[0] * xx + coefs[1] * yy + coefs[2] over the full mesh
plane(coefs, x, y) ==
    [shape |-> meshgrid_shape(x, y),
     v |-> ndarray([i \in 1..Len(y) |-> [j \in 1..Len(x) |->
                      RAdd(RAdd(RMul(coefs[1], x[j]), RMul(coefs[2], y[i])),
                           coefs[3])]],
                   Len(y), Len(x))]

\* fit_plane(x, y, z) when the mask pts matches the mesh: the plane
\* coefs[0] * xx + coefs[1] * yy + coefs[2] over the full mesh
fit_plane(x, y, z) ==
    LET pts == finite_positions(z)
        n == Len(pts)
        xx_ == SubSeq([k \in 1..n |-> x[pts[k][2]]], 1, n)
        yy_ == SubSeq([k \in 1..n |-> y[pts[k][1]]], 1, n)
        flat == SubSeq([k \in 1..n |-> Rat(1)], 1, n)
        z_ == SubSeq([k \in 1..n |-> z.v[pts[k][1]][pts[k][2]]], 1, n)
    IN  plane(lstsq(xx_, yy_, flat, z_), x, y)

\* xx[pts] raises IndexError when the boolean mask and the mesh differ in shape
fit_plane_raises(x, y, z) == z.shape # meshgrid_shape(x, y)

\* a - b elementwise, for arrays of one shape
grid_sub(a, b) ==
    [shape |-> a.shape,
     v |-> ndarray([i \in 1..a.shape[1] |-> [j \in 1..a.shape[2] |->
                      RSub(a.v[i][j], b.v[i][j])]], a.shape[1], a.shape[2])]

\* a - s for a scalar s
grid_sub_scalar(a, s) ==
    [shape |-> a.shape,
     v |-> ndarray([i \in 1..a.shape[1] |-> [j \in 1..a.shape[2] |->
                      RSub(a.v[i][j], s)]], a.shape[1], a.shape[2])]

\* a[m.isfinite(a)].mean(): NaN (with a warning, no exception) for no samples
finite_mean(a) ==
    LET pts == finite_positions(a)
        n == Len(pts)
        sel == SubSeq([k \in 1..n |-> a.v[pts[k][1]][pts[k][2]]], 1, n)
    IN  IF n = 0 THEN NaN ELSE RDiv(RSum(sel, 1), Rat(n))

\* ------------------------------------------------------ bandreject_filter
\* Complex numbers of the transform are exact elements of Z[w], w = exp(2 pi i/12),
\* written <<a, b, c, d>> = a + b w + c w^2 + d w^3 (w^4 = w^2 - 1).  The n-th
\* roots of unity are powers of w for every axis length n dividing 12.
\* Arrays inside the filter are sequences of rows; element [p][q] of the
\* model is element [p - 1][q - 1] of the code.
Unit(k) ==
    LET t == <<<<1, 0, 0, 0>>, <<0, 1, 0, 0>>, <<0, 0, 1, 0>>, <<0, 0, 0, 1>>,
               <<-1, 0, 1, 0>>, <<0, -1, 0, 1>>>>
        u == t[(k % 6) + 1]
    IN  IF (k % 12) < 6 THEN u ELSE <<-u[1], -u[2], -u[3], -u[4]>>

CZero == <<0, 0, 0, 0>>

CAdd(z1, z2) == <<z1[1] + z2[1], z1[2] + z2[2], z1[3] + z2[3], z1[4] + z2[4]>>

CScale(n, z) == <<n * z[1], n * z[2], n * z[3], n * z[4]>>

\* z * w^k
CMulUnit(z, k) ==
    CAdd(CAdd(CScale(z[1], Unit(k)), CScale(z[2], Unit(k + 1))),
         CAdd(CScale(z[3], Unit(k + 2)), CScale(z[4], Unit(k + 3))))

\* ndarray.real of a number of Z[w] whose imaginary part is zero (b = 0):
\* a + c/2
real(z) == Norm(2 * z[1] + z[3], 2)

\* m.fftshift(a): every axis rolled by n // 2
fftshift(a, sy, sx) ==
    ndarray([p \in 1..sy |-> [q \in 1..sx |->
                a[((p - 1 - (sy \div 2)) % sy) + 1][((q - 1 - (sx \div 2)) % sx) + 1]]],
            sy, sx)

\* variant: ifftshift written as fftshift (the two differ for odd lengths)
ifftshift_as_fftshift(a, sy, sx) == fftshift(a, sy, sx)

\* m.ifftshift(a): every axis rolled by -(n // 2)
ifftshift(a, sy, sx) ==
    ndarray([p \in 1..sy |-> [q \in 1..sx |->
                a[((p - 1 + (sy \div 2)) % sy) + 1][((q - 1 + (sx \div 2)) % sx) + 1]]],
            sy, sx)

\* sum over j = 1..n of s[j] * w^(sign * (j - 1) * k * 12 / n): bin k of the
\* discrete Fourier transform of s (sign = -1) or of its unscaled inverse
\* (sign = 1)
RECURSIVE dft_bin(_, _, _, _, _)
dft_bin(s, n, k, sign, j) ==
    IF j > n THEN CZero
    ELSE CAdd(CMulUnit(s[j], (sign * (j - 1) * k * (12 \div n)) % 12),
              dft_bin(s, n, k, sign, j + 1))

\* the transform along the last axis, then along the first (m.fft2 for
\* sign = -1; m.ifft2 times sy * sx for sign = 1)
transform2(a, sy, sx, sign) ==
    LET rows == ndarray([p \in 1..sy |-> [q \in 1..sx |->
                            dft_bin(a[p], sx, q - 1, sign, 1)]], sy, sx)
    IN  ndarray([p \in 1..sy |-> [q \in 1..sx |->
                    dft_bin([i \in 1..sy |-> rows[i][q]], sy, p - 1, sign, 1)]], sy, sx)

fft2(a, sy, sx) == transform2(a, sy, sx, -1)

\* m.ifft2(X) times sy * sx (the division is done once, in bandreject_filter)
ifft2_unscaled(X, sy, sx) == transform2(X, sy, sx, 1)

\* forward_ft_unit(sample_spacing, n): the n frequencies of a centred
\* transform, k / (n * sample_spacing) for k = -(n // 2) .. n - 1 - n // 2
forward_ft_unit(sample_spacing, n) ==
    SubSeq([k \in 1..n |-> RDiv(Rat(k - 1 - (n \div 2)), RMul(Rat(n), sample_spacing))],
           1, n)

RNeg(a) == RSub(Rat(0), a)

\* mask = highpass | lowpass on the meshgrid of ux, uy
filter_mask(ux, uy, fhigh, flow) ==
    ndarray([p \in 1..Len(uy) |-> [q \in 1..Len(ux) |->
        LET highpass == (RLess(ux[q], RNeg(fhigh)) \/ RLess(fhigh, ux[q]))
                        \/ (RLess(uy[p], RNeg(fhigh)) \/ RLess(fhigh, uy[p]))
            lowpass == (RLess(RNeg(flow), ux[q]) /\ RLess(ux[q], flow))
                       /\ (RLess(RNeg(flow), uy[p]) /\ RLess(uy[p], flow))
        IN  highpass \/ lowpass]], Len(uy), Len(ux))

\* float('inf') as a cutoff wavelength
Inf == <<1, 0>>

\* 1 / w for a wavelength w (1 / inf is 0.0)
reciprocal(w) == IF w = Inf THEN Rat(0) ELSE RDiv(Rat(1), w)

RECURSIVE LCMOver(_)
LCMOver(S) ==
    IF S = {} THEN 1
    ELSE LET e == CHOOSE e \in S : TRUE
             l == LCMOver(S \ {e})
         IN  (e * l) \div GCD(e, l)

\* bandreject_filter(array, sample_spacing, wllow, wlhigh) for a non-empty
\* array and non-zero cutoffs.  The samples are scaled to integers by their
\* common denominator den for the transform and scaled back at the end.
bandreject_filter(array, sample_spacing, wllow, wlhigh) ==
    LET sy == array.shape[1]
        sx == array.shape[2]
        ux == forward_ft_unit(sample_spacing, sx)
        uy == forward_ft_unit(sample_spacing, sy)
        fhigh == reciprocal(wllow)
        flow == reciprocal(wlhigh)
        mask == filter_mask(ux, uy, fhigh, flow)
        den == LCMOver({array.v[i][j][2] : i \in 1..sy, j \in 1..sx} \ {0})
        \* work = array.copy(); work[~isfinite(work)] = 0
        work == ndarray([p \in 1..sy |-> [q \in 1..sx |->
                    LET s == array.v[p][q]
                    IN  IF isfinite(s) THEN <<s[1] * (den \div s[2]), 0, 0, 0>>
                        ELSE CZero]], sy, sx)
        fourier == fftshift(fft2(ifftshift(work, sy, sx), sy, sx), sy, sx)
        masked == ndarray([p \in 1..sy |-> [q \in 1..sx |->
                    IF mask[p][q] THEN CZero ELSE fourier[p][q]]], sy, sx)
        out == fftshift(ifft2_unscaled(ifftshift(masked, sy, sx), sy, sx), sy, sx)
    IN  [shape |-> array.shape,
         v |-> ndarray([i \in 1..sy |-> [j \in 1..sx |->
                          RDiv(real(out[i][j]), Rat(den * sy * sx))]], sy, sx)]

\* ------------------------------------------------------------ Interferogram
\* class tables
labels(realxy) ==
    IF realxy THEN [um |-> <<"x [um]", "y [um]">>, mm |-> <<"x [mm]", "y [mm]">>]
    ELSE [um |-> <<"x [px]", "y [px]">>, mm |-> <<"x [px]", "y [px]">>]

scale_map == [um |-> 1000000, mm |-> 1000]

\* str.lower() on the scale strings callers pass
lower(s) == IF s = "UM" THEN "um" ELSE IF s = "MM" THEN "mm" ELSE s

\* ---- inputs
Samples == {NaN, Rat(0), Rat(1)}

\* every shape up to MaxDim x MaxDim, and one longer row and one longer column
Shapes == ((1..MaxDim) \X (1..MaxDim)) \cup {<<1, MaxDim + 1>>, <<MaxDim + 1, 1>>}

PhaseGrids ==
    UNION {{[shape |-> sh, v |-> w] : w \in [1..sh[1] -> [1..sh[2] -> Samples]]} :
             sh \in Shapes}

\* the samples of an n x n grid lying on the sides named in S
border(n, S) ==
    {c \in (1..n) \X (1..n) :
        \/ ("top" \in S /\ c[1] = 1) \/ ("bottom" \in S /\ c[1] = n)
        \/ ("left" \in S /\ c[2] = 1) \/ ("right" \in S /\ c[2] = n)}

\* the sets of missing samples of the measured surfaces: an invalid border on
\* any of the four sides, and at most one more dropout
Dropouts(n) ==
    {border(n, S) \cup E :
        S \in SUBSET {"top", "bottom", "left", "right"},
        E \in {{}} \cup {{c} : c \in (1..n) \X (1..n)}}

\* measured surfaces with dropout: the saddle z = x y sampled on a square
\* grid one larger than MaxDim
MeasuredSurfaces ==
    LET n == MaxDim + 1
    IN  {[shape |-> <<n, n>>,
          v |-> ndarray([i \in 1..n |-> [j \in 1..n |->
                           IF <<i, j>> \in D THEN NaN ELSE Rat((i - 1) * (j - 1))]],
                        n, n)] : D \in Dropouts(n)}

Scales == {"um", "in"}

\* sample spacings of directly supplied axes
Spacings == {Rat(2)}

\* calls of from_zygo_dat: the phase and the lateral resolution (in metres)
\* that read_zygo_dat returns, and the scale the caller asks for.  The
\* resolutions give axis steps of 1 and 1/2 scale units.
ZygoCalls ==
    (PhaseGrids \X {<<1, 1000000>>} \X {"UM"})
    \cup (PhaseGrids \X {<<1, 2000>>} \X {"mm"})
    \cup (PhaseGrids \X {<<1, 1000>>} \X {"in"})
    \cup (MeasuredSurfaces \X {<<1, 1000000>>} \X {"um"})

\* cutoff wavelengths passed to bandreject
CutoffsLow == {Rat(0), Rat(1), Rat(3)}
CutoffsHigh == {Rat(8), Inf}

\* ---- state
\* the attributes before __init__ has run
NoObject ==
    [phase |-> [shape |-> <<0, 0>>, v |-> <<>>], intensity |-> "unset",
     scale |-> "unset", meta |-> <<>>, x |-> <<>>, y |-> <<>>, realxy |-> FALSE,
     lateral_res |-> "unset", sample_spacing |-> <<>>]

\* the record of the latest call: its name, how it ended, the entity as it
\* was when the call began, what it returned (for bandreject: its arguments)
\* and the name, outcome and value of the call before it
NoCall ==
    [op |-> "none", outcome |-> "ok", err |-> "none", pre |-> NoObject, ret |-> <<>>,
     prior |-> <<"none", "ok", <<>>>>]

Returned(op, before, value) ==
    [op |-> op, outcome |-> "ok", err |-> "none", pre |-> before, ret |-> value,
     prior |-> <<last.op, last.outcome, last.ret>>]

Raised(op, before, err) ==
    [op |-> op, outcome |-> "raise", err |-> err, pre |-> before, ret |-> <<>>,
     prior |-> <<last.op, last.outcome, last.ret>>]

Init ==
    /\ pc = "new"
    /\ self = NoObject
    /\ last = NoCall
    /\ steps = 0

\* Interferogram.__init__(phase, intensity, x, y, scale, meta): the attributes
\* it sets, or the exception it raises (x[1] of a one-sample axis)
init_raises(x) == x # <<>> /\ Len(x[1]) < 2

init_object(phase, intensity, x, y, scale, meta) ==
    IF x = <<>>  \* x is None
    THEN [phase |-> phase, intensity |-> intensity, scale |-> scale, meta |-> meta,
          x |-> arange(phase.shape[2], Rat(1)), y |-> arange(phase.shape[1], Rat(1)),
          realxy |-> FALSE, lateral_res |-> "None", sample_spacing |-> <<>>]
    ELSE [phase |-> phase, intensity |-> intensity, scale |-> scale, meta |-> meta,
          x |-> x[1], y |-> y[1],
          realxy |-> TRUE, lateral_res |-> "unset",
          sample_spacing |-> <<RSub(x[1][2], x[1][1])>>]

\* Interferogram(phase, scale=scale): no coordinates supplied
ConstructSynthetic ==
    /\ pc = "new"
    /\ \E phase \in PhaseGrids, scale \in Scales :
         /\ self' = init_object(phase, "None", <<>>, <<>>, scale, <<>>)
         /\ last' = Returned("__init__", NoObject, <<>>)
    /\ pc' = "live"
    /\ UNCHANGED steps

\* Interferogram(phase, intensity, x, y, scale): uniform axes supplied
ConstructPhysical ==
    /\ pc = "new"
    /\ \E phase \in PhaseGrids, d \in Spacings, scale \in {"mm"} :
         LET x == arange(phase.shape[2], d)
             y == arange(phase.shape[1], d)
         IN  IF init_raises(<<x>>)
             THEN /\ self' = NoObject
                  /\ last' = Raised("__init__", NoObject, "IndexError")
                  /\ pc' = "failed"
             ELSE /\ self' = init_object(phase, "intensity", <<x>>, <<y>>, scale, <<>>)
                  /\ last' = Returned("__init__", NoObject, <<>>)
                  /\ pc' = "live"
    /\ UNCHANGED steps

\* Interferogram.from_zygo_dat(path, scale=scale)
from_zygo_dat ==
    /\ pc = "new"
    /\ \E call \in ZygoCalls :
         LET zydat == [phase |-> call[1], intensity |-> "intensity",
                       meta |-> <<[lateral_resolution |-> call[2]]>>]
             phase == zydat.phase
             scale == call[3]
         IN  IF lower(scale) \notin DOMAIN scale_map
             THEN /\ self' = NoObject
                  /\ last' = Raised("from_zygo_dat", NoObject, "KeyError")
                  /\ pc' = "failed"
             ELSE LET res == RMul(zydat.meta[1].lateral_resolution,
                                  Rat(scale_map[lower(scale)]))
                      x == arange(phase.shape[2], res)
                      y == arange(phase.shape[1], res)
                  IN  IF init_raises(<<x>>)
                      THEN /\ self' = NoObject
                           /\ last' = Raised("from_zygo_dat", NoObject, "IndexError")
                           /\ pc' = "failed"
                      ELSE /\ self' = init_object(zydat.phase, zydat.intensity, <<x>>,
                                                  <<y>>, lower(scale), zydat.meta)
                           /\ last' = Returned("from_zygo_dat", NoObject, <<>>)
                           /\ pc' = "live"
    /\ UNCHANGED steps

\* a call on the constructed entity
Live == pc = "live" /\ steps < MaxSteps

\* ---- crop
\* the array crop() assigns to self.phase
crop_result(phase) ==
    LET nanrows == anyrows(phase)
        nancols == anycols(phase)
        left == argmax(nanrows)
        right == argmax(reversed(nanrows))
        top == argmax(nancols)
        bottom == argmax(reversed(nancols))
    IN  subgrid(phase, slice(phase.shape[1], left, -right),
                slice(phase.shape[2], top, -bottom))

\* argmax of an empty vector raises ValueError
crop_raises(phase) == phase.shape[1] = 0 \/ phase.shape[2] = 0

crop ==
    /\ Live
    /\ IF crop_raises(self.phase)
       THEN /\ last' = Raised("crop", self, "ValueError")
            /\ UNCHANGED self
       ELSE /\ self' = [self EXCEPT !.phase = crop_result(self.phase)]
            /\ last' = Returned("crop", self, <<>>)
    /\ steps' = steps + 1
    /\ UNCHANGED pc

\* ---- remove_tiptilt, remove_piston, remove_piston_tiptilt
remove_tiptilt_result(obj) == grid_sub(obj.phase, fit_plane(obj.x, obj.y, obj.phase))

remove_piston_result(obj) == grid_sub_scalar(obj.phase, finite_mean(obj.phase))

\* whether m.lstsq refuses the system: never when it has rows; with no rows
\* (no finite sample) releases of the library before 1.16 raise LinAlgError
\* and later ones return zeros, so both outcomes are possible
lstsq_may_raise(obj) ==
    IF Len(finite_positions(obj.phase)) = 0 THEN {TRUE, FALSE} ELSE {FALSE}

remove_tiptilt ==
    /\ Live
    /\ IF fit_plane_raises(self.x, self.y, self.phase)
       THEN /\ last' = Raised("remove_tiptilt", self, "IndexError")
            /\ UNCHANGED self
       ELSE \E refused \in lstsq_may_raise(self) :
              IF refused
              THEN /\ last' = Raised("remove_tiptilt", self, "LinAlgError")
                   /\ UNCHANGED self
              ELSE /\ self' = [self EXCEPT !.phase = remove_tiptilt_result(self)]
                   /\ last' = Returned("remove_tiptilt", self, <<>>)
    /\ steps' = steps + 1
    /\ UNCHANGED pc

\* variant: the mean is taken over every sample and a nan mean is refused
remove_piston_raises_on_invalid(obj) == count_nonfinite(obj.phase) > 0

\* the mean of no samples is nan with a RuntimeWarning, and nan is subtracted:
\* nothing in remove_piston raises
remove_piston_raises(obj) == FALSE

\* the body of remove_piston run on obj, the entity as it is when the body
\* starts, inside the call op made on self
remove_piston_body(op, obj) ==
    IF remove_piston_raises(obj)
    THEN /\ self' = obj
         /\ last' = Raised(op, self, "FloatingPointError")
    ELSE /\ self' = [obj EXCEPT !.phase = remove_piston_result(obj)]
         /\ last' = Returned(op, self, <<>>)

remove_piston ==
    /\ Live
    /\ remove_piston_body("remove_piston", self)
    /\ steps' = steps + 1
    /\ UNCHANGED pc

\* self.remove_tiptilt() then self.remove_piston(): an exception of the first
\* call leaves before the second; an exception of the second would leave with
\* the first call's subtraction done
remove_piston_tiptilt ==
    /\ Live
    /\ IF fit_plane_raises(self.x, self.y, self.phase)
       THEN /\ last' = Raised("remove_piston_tiptilt", self, "IndexError")
            /\ UNCHANGED self
       ELSE \E refused \in lstsq_may_raise(self) :
              IF refused
              THEN /\ last' = Raised("remove_piston_tiptilt", self, "LinAlgError")
                   /\ UNCHANGED self
              ELSE remove_piston_body("remove_piston_tiptilt",
                                      [self EXCEPT !.phase = remove_tiptilt_result(self)])
    /\ steps' = steps + 1
    /\ UNCHANGED pc

\* ---- bandreject
\* the exception bandreject raises before it assigns self.phase, or "none":
\* self.sample_spacing is not set without supplied axes; 1 / wllow divides by
\* zero; a transform of an empty array is refused
bandreject_error(obj, wllow, wlhigh) ==
    IF obj.sample_spacing = <<>> THEN "AttributeError"
    ELSE IF wllow = Rat(0) \/ wlhigh = Rat(0) THEN "ZeroDivisionError"
    ELSE IF size(obj.phase) = 0 THEN "ValueError"
    ELSE "none"

\* variant: the filtered array is stored without restoring the invalid samples
restore_nan_skipped(new_phase, phase) == new_phase

\* new_phase[~m.isfinite(self.phase)] = m.nan
restore_nan(new_phase, phase) ==
    [shape |-> new_phase.shape,
     v |-> ndarray([i \in 1..phase.shape[1] |-> [j \in 1..phase.shape[2] |->
                      IF ~isfinite(phase.v[i][j]) THEN NaN ELSE new_phase.v[i][j]]],
                   phase.shape[1], phase.shape[2])]

bandreject_result(obj, wllow, wlhigh) ==
    restore_nan(bandreject_filter(obj.phase, obj.sample_spacing[1], wllow, wlhigh),
                obj.phase)

bandreject ==
    /\ Live
    /\ \E wllow \in CutoffsLow, wlhigh \in CutoffsHigh :
         IF bandreject_error(self, wllow, wlhigh) # "none"
         THEN /\ last' = Raised("bandreject", self, bandreject_error(self, wllow, wlhigh))
              /\ UNCHANGED self
         ELSE /\ self' = [self EXCEPT !.phase = bandreject_result(self, wllow, wlhigh)]
              /\ last' = Returned("bandreject", self, <<wllow, wlhigh>>)
    /\ steps' = steps + 1
    /\ UNCHANGED pc

\* ---- read-only members
\* variant: the finite samples are counted (the negation is dropped)
dropout_percentage_of_finite(phase) ==
    RMul(RDiv(Rat(size(phase) - count_nonfinite(phase)), Rat(size(phase))), Rat(100))

\* count_nonzero(~isfinite(phase)) / phase.size * 100
dropout_percentage_value(phase) == RMul(RDiv(Rat(count_nonfinite(phase)), Rat(size(phase))), Rat(100))

dropout_percentage ==
    /\ Live
    /\ IF size(self.phase) = 0
       THEN last' = Raised("dropout_percentage", self, "ZeroDivisionError")
       ELSE last' = Returned("dropout_percentage", self,
                             dropout_percentage_value(self.phase))
    /\ steps' = steps + 1
    /\ UNCHANGED <<pc, self>>

\* plot2d: the axis labels are looked up in the class table by self.scale
\* (the drawing itself belongs to the plotting library)
plot2d ==
    /\ Live
    /\ IF self.scale \in DOMAIN labels(self.realxy)
       THEN last' = Returned("plot2d", self, labels(self.realxy)[self.scale])
       ELSE last' = Raised("plot2d", self, "KeyError")
    /\ steps' = steps + 1
    /\ UNCHANGED <<pc, self>>

Next ==
    \/ ConstructSynthetic
    \/ ConstructPhysical
    \/ from_zygo_dat
    \/ crop
    \/ remove_tiptilt
    \/ remove_piston
    \/ remove_piston_tiptilt
    \/ bandreject
    \/ dropout_percentage
    \/ plot2d

Spec == Init /\ [][Next]_vars

\* ================================================================== claims
Mutating == {"crop", "remove_tiptilt", "remove_piston", "remove_piston_tiptilt",
             "bandreject"}

has_finite(a) == count_nonfinite(a) < size(a)

\* rows / columns of a that hold a finite sample
finite_rows(a) == {i \in 1..a.shape[1] : anyrows(a)[i]}
finite_cols(a) == {j \in 1..a.shape[2] : anycols(a)[j]}

Min(S) == CHOOSE m \in S : \A n \in S : m <= n
Max(S) == CHOOSE m \in S : \A n \in S : m >= n

\* the tightest box around the finite samples of a grid that has one
bounding_box(a) ==
    LET r0 == Min(finite_rows(a))
        r1 == Max(finite_rows(a))
        c0 == Min(finite_cols(a))
        c1 == Max(finite_cols(a))
    IN  [shape |-> <<r1 - r0 + 1, c1 - c0 + 1>>,
         v |-> ndarray([i \in 1..(r1 - r0 + 1) |-> [j \in 1..(c1 - c0 + 1) |->
                          a.v[r0 + i - 1][c0 + j - 1]]], r1 - r0 + 1, c1 - c0 + 1)]

\* every border row and column holds a finite sample
already_cropped(a) ==
    /\ size(a) > 0
    /\ anyrows(a)[1] /\ anyrows(a)[a.shape[1]]
    /\ anycols(a)[1] /\ anycols(a)[a.shape[2]]

\* C1: on a phase grid with at least one finite sample, crop() returns
\* normally and leaves exactly the tightest bounding box of the finite
\* samples, values unchanged, also when a border row or column already
\* holds a finite sample.
C1_CropIsTightestBox ==
    (last.op = "crop" /\ has_finite(last.pre.phase))
        => (last.outcome = "ok" /\ self.phase = bounding_box(last.pre.phase))

\* C2: once an Interferogram exists, len(x) is the number of columns of
\* phase and len(y) the number of rows, whatever operations were applied.
C2_AxesMatchPhaseShape ==
    pc = "live" => (Len(self.x) = self.phase.shape[2] /\ Len(self.y) = self.phase.shape[1])

\* C3: crop() on a grid that is already cropped to its finite bounding box
\* leaves phase unchanged in shape and values.
C3_CropIdempotent ==
    (last.op = "crop" /\ already_cropped(last.pre.phase))
        => (last.outcome = "ok" /\ self.phase = last.pre.phase)

\* C4: crop() never returns normally leaving a phase grid with zero rows or
\* zero columns: after a crop() that returned, phase holds a finite sample.
C4_CropNeverLeavesEmptyGrid ==
    (last.op = "crop" /\ last.outcome = "ok")
        => (self.phase.shape[1] > 0 /\ self.phase.shape[2] > 0 /\ has_finite(self.phase))

\* C5: when bandreject returns normally, the positions holding a non-finite
\* sample are the same before and after the call.
C5_BandrejectKeepsInvalidPositions ==
    (last.op = "bandreject" /\ last.outcome = "ok")
        => /\ self.phase.shape = last.pre.phase.shape
           /\ \A i \in 1..self.phase.shape[1], j \in 1..self.phase.shape[2] :
                isfinite(self.phase.v[i][j]) <=> isfinite(last.pre.phase.v[i][j])

\* a bandreject that returned on a grid mixing finite and non-finite samples
\* and changed a finite sample
C5_Witness ==
    /\ last.op = "bandreject" /\ last.outcome = "ok"
    /\ has_finite(last.pre.phase) /\ count_nonfinite(last.pre.phase) > 0
    /\ self.phase # last.pre.phase

\* the latest call is the second of two bandreject calls with the same
\* cutoffs that both returned
SecondBandreject ==
    /\ last.op = "bandreject" /\ last.outcome = "ok"
    /\ last.prior = <<"bandreject", "ok", last.ret>>

\* C6 (as claimed): for every phase grid, also one with non-finite samples,
\* a second bandreject with the same cutoffs leaves the phase the first one
\* produced.
C6_BandrejectIdempotent ==
    SecondBandreject => self.phase = last.pre.phase

\* C6 (amended): on a phase grid without non-finite samples, a second
\* bandreject with the same cutoffs leaves the phase the first one produced.
C6_BandrejectIdempotentOnFiniteGrids ==
    (SecondBandreject /\ count_nonfinite(last.pre.phase) = 0)
        => self.phase = last.pre.phase

\* a second bandreject on an all-finite grid with an axis of odd length (where
\* fftshift and ifftshift differ) that the first call had left non-constant
C6_Witness ==
    /\ SecondBandreject /\ count_nonfinite(last.pre.phase) = 0
    /\ \E n \in {last.pre.phase.shape[1], last.pre.phase.shape[2]} : n > 1 /\ n % 2 = 1
    /\ \E i \in 1..self.phase.shape[1], j \in 1..self.phase.shape[2] :
         self.phase.v[i][j] # self.phase.v[1][1]

\* rank of the design matrix fit_plane builds from the finite samples
design_rank(obj) ==
    LET pts == finite_positions(obj.phase)
        n == Len(pts)
        xx_ == SubSeq([k \in 1..n |-> obj.x[pts[k][2]]], 1, n)
        yy_ == SubSeq([k \in 1..n |-> obj.y[pts[k][1]]], 1, n)
        flat == SubSeq([k \in 1..n |-> Rat(1)], 1, n)
    IN  GramRank(<<<<Dot(xx_, xx_, 1), Dot(xx_, yy_, 1), Dot(xx_, flat, 1)>>,
                   <<Dot(xx_, yy_, 1), Dot(yy_, yy_, 1), Dot(yy_, flat, 1)>>,
                   <<Dot(xx_, flat, 1), Dot(yy_, flat, 1), Dot(flat, flat, 1)>>>>)

\* C7: with fewer than 3 independent finite samples (the all-invalid grid
\* included) the plane fit fails, so remove_tiptilt fails and subtracts
\* nothing.
C7_DegenerateFitRaises ==
    (/\ last.op = "remove_tiptilt"
     /\ last.pre.phase.shape = meshgrid_shape(last.pre.x, last.pre.y)
     /\ design_rank(last.pre) < 3)
        => (last.outcome = "raise" /\ self.phase = last.pre.phase)

\* C8: no Interferogram with a scale other than 'um' or 'mm' exists, and no
\* later call (the label lookup of plot2d) is where a bad scale is reported.
C8_ScaleRejectedAtConstruction ==
    /\ pc = "live" => self.scale \in {"um", "mm"}
    /\ last.op = "plot2d" => last.err # "KeyError"

\* C9: when a mutating operation reports failure, every attribute of the
\* entity is as it was before the call.
C9_FailureLeavesEntityUnchanged ==
    (last.op \in Mutating /\ last.outcome = "raise") => self = last.pre

\* a mutating call that failed on an entity that an earlier call had changed
C9_Witness ==
    /\ last.op \in Mutating /\ last.outcome = "raise"
    /\ last.prior[1] \in Mutating /\ last.prior[2] = "ok"
    /\ has_finite(self.phase)

\* C10 (as claimed): the dropout percentage read after a crop() equals the
\* one read before it (stated for the crops that leave a grid to read it
\* from).
C10_DropoutConstantAcrossCrop ==
    (last.op = "crop" /\ last.outcome = "ok" /\ size(self.phase) > 0)
        => dropout_percentage_value(self.phase) = dropout_percentage_value(last.pre.phase)

\* C10 (amended): dropout_percentage is recomputed from the current grid;
\* after a crop() that leaves a non-empty grid it is strictly lower than
\* before the crop.
C10_DropoutFallsAcrossCrop ==
    (last.op = "crop" /\ last.outcome = "ok" /\ size(self.phase) > 0)
        => RLess(dropout_percentage_value(self.phase),
                 dropout_percentage_value(last.pre.phase))

\* a crop that cut a grid down to a smaller one that still has invalid samples
\* and several finite ones
C10_Witness ==
    /\ size(self.phase) - count_nonfinite(self.phase) > 1
    /\ last.op = "crop" /\ last.outcome = "ok" /\ size(self.phase) > 0
    /\ count_nonfinite(self.phase) > 0

====
